---- MODULE Spec2Model ----
(***************************************************************************)
(* Fitness-tracker module homework.py: the Training hierarchy (Running,    *)
(* SportsWalking, Swimming), InfoMessage, read_package and the driver      *)
(* loop.                                                                   *)
(*                                                                         *)
(* Python's float is IEEE-754 binary64.  The program's arithmetic is       *)
(* modelled bit-exactly: a float is a 53-bit significand and an exponent,  *)
(* and every operation rounds to nearest, ties to even.  TLC's integers    *)
(* are 32 bits wide, so significands are kept as little-endian sequences   *)
(* of 14-bit limbs.  Only non-negative values occur (every input and every *)
(* constant of the program is non-negative and nothing is subtracted); the *)
(* exponent range of binary64 (overflow, subnormals) is not reached by the *)
(* bounded inputs and is not modelled.                                     *)
(***************************************************************************)
EXTENDS Integers, Naturals, Sequences, FiniteSets, TLC

VARIABLES
  pow_mode,   \* how this build's libm pow rounds an inexact result
  packages,   \* the driver's list of (workout_type, data)
  idx,        \* the pair the for loop is at
  pc,         \* where the driver is
  training,   \* the driver's variable training
  stdout,     \* the lines printed so far
  raised,     \* the exception that ended the driver
  given,      \* object-level runs: how each object is to be built
  recs,       \* object-level runs: the objects
  ret,        \* object-level runs: what the last call on each object returned
  msgs        \* object-level runs: the strings get_message returned, per object

vars == <<pow_mode, packages, idx, pc, training, stdout, raised,
          given, recs, ret, msgs>>

(***************************************************************************)
(* Unbounded naturals: little-endian limb sequences, no leading zero limb. *)
(* The arithmetic is written as functions: TLC evaluates the argument of a *)
(* function application once, before the body.                             *)
(***************************************************************************)
LimbBits == 14
Limb == 2^LimbBits
Big == Seq(Int)

Min(a, b) == IF a < b THEN a ELSE b
Max(a, b) == IF a < b THEN b ELSE a
LimbAt(s, i) == IF i >= 1 /\ i <= Len(s) THEN s[i] ELSE 0

Trim[s \in Big] ==
  IF s = <<>> THEN s
  ELSE IF s[Len(s)] # 0 THEN s
  ELSE Trim[SubSeq(s, 1, Len(s) - 1)]

\* the limbs of the number whose columns are s[i..], with carry c coming in
CarryFrom[s \in Big, i \in Nat, c \in Int] ==
  IF i > Len(s)
  THEN IF c = 0 THEN <<>> ELSE <<c % Limb>> \o CarryFrom[s, i, c \div Limb]
  ELSE <<(s[i] + c) % Limb>> \o CarryFrom[s, i + 1, (s[i] + c) \div Limb]

BigOf[n \in Nat] == IF n = 0 THEN <<>> ELSE CarryFrom[<<n>>, 1, 0]

BigAdd[a \in Big, b \in Big] ==
  CarryFrom[[i \in 1..Max(Len(a), Len(b)) |-> LimbAt(a, i) + LimbAt(b, i)], 1, 0]

\* a - b, for a >= b
BigSub[a \in Big, b \in Big] ==
  Trim[CarryFrom[[i \in 1..Len(a) |-> a[i] - LimbAt(b, i)], 1, 0]]

BigLess[a \in Big, b \in Big] ==
  IF Len(a) # Len(b) THEN Len(a) < Len(b)
  ELSE \E i \in 1..Len(a) :
         a[i] < b[i] /\ \A j \in (i + 1)..Len(a) : a[j] = b[j]

ConvSum[a \in Big, b \in Big, k \in Nat, i \in Nat] ==
  IF i > Len(a) \/ i > k THEN 0
  ELSE LimbAt(a, i) * LimbAt(b, k + 1 - i) + ConvSum[a, b, k, i + 1]

\* a * b; the shorter operand has at most 7 limbs, so a column sum fits 31 bits
BigMul[a \in Big, b \in Big] ==
  IF a = <<>> \/ b = <<>> THEN <<>>
  ELSE CarryFrom[[k \in 1..(Len(a) + Len(b) - 1) |-> ConvSum[a, b, k, 1]], 1, 0]

\* a * 2^s
BigShl[a \in Big, s \in Nat] ==
  IF a = <<>> THEN <<>>
  ELSE [i \in 1..(s \div LimbBits) |-> 0]
       \o CarryFrom[[i \in 1..Len(a) |-> a[i] * 2^(s % LimbBits)], 1, 0]

\* 2 * a + bit
BigDouble[a \in Big, bit \in {0, 1}] ==
  CarryFrom[[i \in 1..Max(Len(a), bit) |->
               2 * LimbAt(a, i) + (IF i = 1 THEN bit ELSE 0)], 1, 0]

\* floor(a / 2^s)
BigShr[a \in Big, s \in Nat] ==
  IF Len(a) <= s \div LimbBits THEN <<>>
  ELSE Trim[[i \in 1..(Len(a) - s \div LimbBits) |->
               (a[s \div LimbBits + i] \div 2^(s % LimbBits))
               + (LimbAt(a, s \div LimbBits + i + 1) % 2^(s % LimbBits))
                 * 2^(LimbBits - (s % LimbBits))]]

\* bit k (0 = least significant) of a
BigBit(a, k) ==
  IF k < 0 THEN 0
  ELSE (LimbAt(a, k \div LimbBits + 1) \div 2^(k % LimbBits)) % 2

\* some bit below bit k of a is set
BigAnyBelow(a, k) ==
  /\ k > 0
  /\ \/ \E i \in 1..(k \div LimbBits) : LimbAt(a, i) # 0
     \/ LimbAt(a, k \div LimbBits + 1) % 2^(k % LimbBits) # 0

BigBitLen[a \in Big] ==
  IF a = <<>> THEN 0
  ELSE LimbBits * (Len(a) - 1)
       + (CHOOSE k \in 1..LimbBits : 2^(k - 1) <= a[Len(a)] /\ a[Len(a)] < 2^k)

\* a = q * d + r for a small divisor 0 < d < 2^14: limbs i..1 of a still to
\* divide, r the remainder and q the quotient limbs so far
DivSmallFrom[a \in Big, d \in Nat, i \in Nat, r \in Nat, q \in Big] ==
  IF i = 0 THEN [q |-> Trim[q], r |-> r]
  ELSE DivSmallFrom[a, d, i - 1, (r * Limb + a[i]) % d,
                    <<(r * Limb + a[i]) \div d>> \o q]

BigDivSmall[a \in Big, d \in Nat] == DivSmallFrom[a, d, Len(a), 0, <<>>]

RoundModes == {"even", "down", "up"}

\* whether a / 2^s rounds away from zero: to nearest, ties to even ("even"),
\* never ("down"), or whenever it is inexact ("up")
RoundsUp[a \in Big, s \in Nat, mode \in RoundModes] ==
  \/ mode = "up" /\ BigAnyBelow(a, s)
  \/ mode = "even" /\ BigBit(a, s - 1) = 1
     /\ (BigAnyBelow(a, s - 1) \/ BigBit(a, s) = 1)

\* a rounded to a multiple of 2^s, in units of 2^s
BigRoundShr[a \in Big, s \in Nat, mode \in RoundModes] ==
  IF RoundsUp[a, s, mode] THEN BigAdd[BigShr[a, s], <<1>>] ELSE BigShr[a, s]

(***************************************************************************)
(* binary64 values >= 0: value = m * 2^e, m = 0 or 2^52 <= m < 2^53.        *)
(***************************************************************************)
Precision == 53
Float == [m : Big, e : Int]

FZero == [m |-> <<>>, e |-> 0]

\* q * 2^e for 2^52 <= q <= 2^53: rounding up may have carried into bit 53
FCarry[q \in Big, e \in Int] ==
  IF BigBit(q, Precision) = 1 THEN [m |-> BigShr[q, 1], e |-> e + 1]
  ELSE [m |-> q, e |-> e]

\* the float n * 2^e rounds to, n an exact natural of the given bit length
FRoundBits[n \in Big, e \in Int, mode \in RoundModes, bits \in Nat] ==
  IF bits = 0 THEN FZero
  ELSE IF bits <= Precision
  THEN [m |-> BigShl[n, Precision - bits], e |-> e - (Precision - bits)]
  ELSE FCarry[BigRoundShr[n, bits - Precision, mode], e + bits - Precision]

FRoundMode[n \in Big, e \in Int, mode \in RoundModes] ==
  FRoundBits[n, e, mode, BigBitLen[n]]

\* round to nearest, ties to even: every arithmetic operation of the program
FRound[n \in Big, e \in Int] == FRoundBits[n, e, "even", BigBitLen[n]]

\* float(n) for a Python int 0 <= n < 2^31: exact
FExact[n \in Big, bits \in Nat] ==
  IF bits = 0 THEN FZero
  ELSE [m |-> BigShl[n, Precision - bits], e |-> bits - Precision]

FOfBig[n \in Big] == FExact[n, BigBitLen[n]]

FOfInt[n \in Nat] == FOfBig[BigOf[n]]

FMul[x \in Float, y \in Float] == FRound[BigMul[x.m, y.m], x.e + y.e]

FAdd[x \in Float, y \in Float] ==
  IF x.m = <<>> THEN y
  ELSE IF y.m = <<>> THEN x
  ELSE FRound[BigAdd[BigShl[x.m, x.e - Min(x.e, y.e)],
                     BigShl[y.m, y.e - Min(x.e, y.e)]],
              Min(x.e, y.e)]

\* restoring division of r2 / (2 * d), r2 < 2 * d: k more quotient bits
\* appended to q
Quot[r2 \in Big, d \in Big, q \in Big, k \in Nat] ==
  IF k = 0 THEN [q |-> q, r |-> r2]
  ELSE IF BigLess[r2, d]
  THEN Quot[BigDouble[r2, 0], d, BigDouble[q, 0], k - 1]
  ELSE Quot[BigDouble[BigSub[r2, d], 0], d, BigDouble[q, 1], k - 1]

\* a quotient with one more bit that is set when the division left a remainder
QuotRem == [q : Big, r : Big]
StickyLong[t \in QuotRem] == BigDouble[t.q, IF t.r = <<>> THEN 0 ELSE 1]
QuotSmallRem == [q : Big, r : Nat]
StickyShort[t \in QuotSmallRem] == BigDouble[t.q, IF t.r = 0 THEN 0 ELSE 1]

\* x / y for x, y # 0, general divisor: the first 58 bits of x.m / y.m and a
\* sticky bit for the remainder
FDivLong[x \in Float, y \in Float] ==
  FRound[StickyLong[Quot[x.m, y.m, <<>>, Precision + 5]],
         x.e - y.e - (Precision + 4) - 1]

\* x / y for x, y # 0 and y's significand a single limb d times a power of the
\* limb base (every integer below 2^11 is one): x.m * 2^14 divided by d
FDivShort[x \in Float, y \in Float] ==
  FRound[StickyShort[BigDivSmall[<<0>> \o x.m, y.m[Len(y.m)]]],
         x.e - y.e - LimbBits * Len(y.m) - 1]

\* x / y for y # 0, correctly rounded
FDiv[x \in Float, y \in Float] ==
  IF x.m = <<>> THEN FZero
  ELSE IF \A i \in 1..(Len(y.m) - 1) : y.m[i] = 0
  THEN FDivShort[x, y]
  ELSE FDivLong[x, y]

\* x ** 2 is C's pow(x, 2.0), which libm computes to within one unit in the
\* last place: one of the two floats around the exact square
PowModes == {"down", "up"}

FPow2[x \in Float, mode \in PowModes] ==
  FRoundMode[BigMul[x.m, x.m], x.e + x.e, mode]

FIsZero(x) == x.m = <<>>

FLess[x \in Float, y \in Float] ==
  IF y.m = <<>> THEN FALSE
  ELSE IF x.m = <<>> THEN TRUE
  ELSE IF x.e # y.e THEN x.e < y.e
  ELSE BigLess[x.m, y.m]

\* format(x, '.3f'): the exact value rounded to thousandths, ties to even
Digits[b \in Big, tail \in STRING] ==
  IF b = <<>> THEN tail
  ELSE Digits[BigDivSmall[b, 10].q, ToString(BigDivSmall[b, 10].r) \o tail]

Thousandths[x \in Float] ==
  IF x.e >= 0 THEN BigShl[BigMul[x.m, BigOf[1000]], x.e]
  ELSE BigRoundShr[BigMul[x.m, BigOf[1000]], -x.e, "even"]

Format3fOf[t \in QuotSmallRem] ==
  (IF t.q = <<>> THEN "0" ELSE Digits[t.q, ""])
  \o "." \o ToString(t.r \div 100) \o ToString((t.r \div 10) % 10)
  \o ToString(t.r % 10)

Format3f[x \in Float] == Format3fOf[BigDivSmall[Thousandths[x], 1000]]

\* the float a decimal literal n/d of the source denotes
FLit(n, d) == FDiv[FOfInt[n], FOfInt[d]]

(***************************************************************************)
(* Exceptions: a call returns its value or the exception it raised.        *)
(***************************************************************************)
Raise(name) == [exc |-> name]
Raised(v) == "exc" \in DOMAIN v
FloatOrRaised == Float \cup [exc : STRING]

(***************************************************************************)
(* InfoMessage.  The Russian words of MESSAGE are transliterated: a TLA+   *)
(* string holds ASCII only.  duration is the value the record was built    *)
(* with (a Python int here), which '.3f' formats as float(duration).       *)
(***************************************************************************)
InfoMessage(training_type, duration, distance, speed, calories) ==
  [training_type |-> training_type, duration |-> duration,
   distance |-> distance, speed |-> speed, calories |-> calories]

get_message(info) ==
  "Tip trenirovki: " \o info.training_type
  \o "; Dlitel'nost': " \o Format3f[FOfInt[info.duration]] \o " ch."
  \o "; Distantsiya: " \o Format3f[info.distance] \o " km"
  \o "; Sr. skorost': " \o Format3f[info.speed] \o " km/ch"
  \o "; Potracheno kkal: " \o Format3f[info.calories] \o "."

(***************************************************************************)
(* Training and its subclasses.  A record carries its class in cls; a      *)
(* method looks its attributes and the methods it calls up by that class.  *)
(***************************************************************************)
M_IN_KM == 1000
MIN_IN_HOUR == 60
Training_LEN_STEP == FLit(65, 100)
Swimming_LEN_STEP == FLit(138, 100)
CALORIES_MEAN_SPEED_MULTIPLIER == 18
CALORIES_MEAN_SPEED_SHIFT == FLit(179, 100)
COEF_KMH_MS == FLit(278, 1000)
WEIGHT_COEF1 == FLit(35, 1000)
WEIGHT_COEF2 == FLit(29, 1000)
M_TO_SM == 100
SWIM_CONST1 == FLit(11, 10)
SWIM_CONST2 == 2

\* variant: every class reads the step length Swimming overrides
LEN_STEP_overridden(t) == Swimming_LEN_STEP

LEN_STEP(t) ==
  IF t.cls = "Swimming" THEN Swimming_LEN_STEP ELSE Training_LEN_STEP

\* the parameters of cls.__init__ after self, in order
InitParams(cls) ==
  CASE cls = "SportsWalking" -> <<"action", "duration", "weight", "height">>
    [] cls = "Swimming" ->
         <<"action", "duration", "weight", "length_pool", "count_pool">>
    [] OTHER -> <<"action", "duration", "weight">>

\* cls(*data)
New(cls, data) ==
  IF Len(data) # Len(InitParams(cls)) THEN Raise("TypeError")
  ELSE CASE cls = "SportsWalking" ->
              [cls |-> cls, action |-> data[1], duration |-> data[2],
               weight |-> data[3], height |-> data[4]]
         [] cls = "Swimming" ->
              [cls |-> cls, action |-> data[1], duration |-> data[2],
               weight |-> data[3], length_pool |-> data[4],
               count_pool |-> data[5]]
         [] OTHER ->
              [cls |-> cls, action |-> data[1], duration |-> data[2],
               weight |-> data[3]]

get_distance(t) ==
  FDiv[FMul[FOfInt[t.action], LEN_STEP(t)], FOfInt[M_IN_KM]]

Training_get_mean_speed(t) ==
  IF t.duration = 0 THEN Raise("ZeroDivisionError")
  ELSE FDiv[get_distance(t), FOfInt[t.duration]]

\* variant: Swimming without its override, the inherited distance / duration
Swimming_get_mean_speed_inherited(t) == Training_get_mean_speed(t)

Swimming_get_mean_speed(t) ==
  IF t.duration = 0 THEN Raise("ZeroDivisionError")
  ELSE FDiv[FDiv[FOfInt[t.length_pool * t.count_pool], FOfInt[M_IN_KM]],
            FOfInt[t.duration]]

get_mean_speed(t) ==
  IF t.cls = "Swimming" THEN Swimming_get_mean_speed(t)
  ELSE Training_get_mean_speed(t)

\* variant: the base method returns a number instead of raising
Training_get_spent_calories_zero(t) == FZero

Training_get_spent_calories(t) == Raise("NotImplementedError")

\* ((18 * speed + 1.79) * weight / M_IN_KM * duration * MIN_IN_HOUR), or the
\* exception get_mean_speed raised
Running_calories[speed \in FloatOrRaised, weight \in Nat, duration \in Nat] ==
  IF Raised(speed) THEN speed
  ELSE FMul[FMul[FDiv[FMul[FAdd[FMul[FOfInt[CALORIES_MEAN_SPEED_MULTIPLIER],
                                     speed],
                                CALORIES_MEAN_SPEED_SHIFT],
                           FOfInt[weight]],
                      FOfInt[M_IN_KM]],
                 FOfInt[duration]],
            FOfInt[MIN_IN_HOUR]]

\* variant: the distance is used where the source uses the mean speed
Running_get_spent_calories_distance(t) ==
  Running_calories[IF t.duration = 0 THEN Raise("ZeroDivisionError")
                   ELSE get_distance(t),
                   t.weight, t.duration]

Running_get_spent_calories(t) ==
  Running_calories[get_mean_speed(t), t.weight, t.duration]

\* (WEIGHT_COEF1 * weight + (si_av_speed ** 2 / si_height) * WEIGHT_COEF2
\*  * weight) * duration * MIN_IN_HOUR
SportsWalking_calories[si_av_speed \in Float, si_height \in Float, weight \in Nat, duration \in Nat, mode \in PowModes] ==
  IF FIsZero(si_height) THEN Raise("ZeroDivisionError")
  ELSE FMul[FMul[FAdd[FMul[WEIGHT_COEF1, FOfInt[weight]],
                      FMul[FMul[FDiv[FPow2[si_av_speed, mode], si_height],
                                WEIGHT_COEF2],
                           FOfInt[weight]]],
                 FOfInt[duration]],
            FOfInt[MIN_IN_HOUR]]

\* si_av_speed = speed * COEF_KMH_MS, si_height = height / M_TO_SM
SportsWalking_si[speed \in FloatOrRaised, height \in Nat, weight \in Nat, duration \in Nat, mode \in PowModes] ==
  IF Raised(speed) THEN speed
  ELSE SportsWalking_calories[FMul[speed, COEF_KMH_MS],
                              FDiv[FOfInt[height], FOfInt[M_TO_SM]],
                              weight, duration, mode]

\* variant: weight and height passed in each other's place
SportsWalking_get_spent_calories_swapped(t) ==
  SportsWalking_si[get_mean_speed(t), t.weight, t.height, t.duration, pow_mode]

\* variant: the height is left in centimetres, M_TO_SM forgotten
SportsWalking_get_spent_calories_cm(t) ==
  SportsWalking_si[get_mean_speed(t), t.height * M_TO_SM, t.weight,
                   t.duration, pow_mode]

SportsWalking_get_spent_calories(t) ==
  SportsWalking_si[get_mean_speed(t), t.height, t.weight, t.duration, pow_mode]

\* (speed + SWIM_CONST1) * SWIM_CONST2 * weight * duration
Swimming_calories[speed \in FloatOrRaised, weight \in Nat, duration \in Nat] ==
  IF Raised(speed) THEN speed
  ELSE FMul[FMul[FMul[FAdd[speed, SWIM_CONST1], FOfInt[SWIM_CONST2]],
                 FOfInt[weight]],
            FOfInt[duration]]

Swimming_get_spent_calories(t) ==
  Swimming_calories[get_mean_speed(t), t.weight, t.duration]

get_spent_calories(t) ==
  CASE t.cls = "Running" -> Running_get_spent_calories(t)
    [] t.cls = "SportsWalking" -> SportsWalking_get_spent_calories(t)
    [] t.cls = "Swimming" -> Swimming_get_spent_calories(t)
    [] OTHER -> Training_get_spent_calories(t)

\* InfoMessage(...) once its arguments are evaluated, left to right; the first
\* exception among them ends the call
InfoMessage_or_raise[training_type \in STRING, duration \in Nat, distance \in Float, speed \in FloatOrRaised, calories \in FloatOrRaised] ==
  IF Raised(speed) THEN speed
  ELSE IF Raised(calories) THEN calories
  ELSE InfoMessage(training_type, duration, distance, speed, calories)

show_training_info(t) ==
  InfoMessage_or_raise[t.cls, t.duration, get_distance(t), get_mean_speed(t),
                       get_spent_calories(t)]

(***************************************************************************)
(* read_package                                                            *)
(***************************************************************************)
workout_dict ==
  [c \in {"SWM", "RUN", "WLK"} |->
     CASE c = "SWM" -> "Swimming"
       [] c = "RUN" -> "Running"
       [] c = "WLK" -> "SportsWalking"]

\* variant: an unknown code falls back to the base class instead of raising
read_package_default(workout_type, data) ==
  New(IF workout_type \in DOMAIN workout_dict
      THEN workout_dict[workout_type] ELSE "Training", data)

read_package(workout_type, data) ==
  IF workout_type \notin DOMAIN workout_dict THEN Raise("ValueError")
  ELSE New(workout_dict[workout_type], data)

(***************************************************************************)
(* The driver: the for loop under __main__ and main().                     *)
(***************************************************************************)
NoTraining == [cls |-> "None"]

MaxPackages == 3

Package(workout_type, data) == [workout_type |-> workout_type, data |-> data]

PackagePool ==
  { Package("SWM", <<720, 1, 80, 25, 40>>),
    Package("RUN", <<15000, 1, 75>>),
    Package("WLK", <<9000, 1, 75, 180>>),
    Package("XYZ", <<15000, 1, 75>>),
    Package("RUN", <<15000, 1>>),
    Package("SWM", <<720, 0, 80, 25, 40>>),
    Package("WLK", <<9000, 1, 75, 0>>) }

PackageLists == UNION {[1..n -> PackagePool] : n \in 0..MaxPackages}

Init ==
  /\ pow_mode \in PowModes
  /\ packages \in PackageLists
  /\ idx = 1
  /\ pc = "for"
  /\ training = NoTraining
  /\ stdout = <<>>
  /\ raised = "None"
  /\ given = <<>> /\ recs = <<>> /\ ret = <<>> /\ msgs = <<>>

\* variant: the loop catches the exception of read_package and goes on to the
\* next pair
Loop_read_package_isolating ==
  /\ pc = "for"
  /\ idx <= Len(packages)
  /\ \E r \in {read_package(packages[idx].workout_type, packages[idx].data)} :
       IF Raised(r)
       THEN pc' = "for" /\ idx' = idx + 1 /\ UNCHANGED training
       ELSE pc' = "main" /\ training' = r /\ UNCHANGED idx
  /\ UNCHANGED <<pow_mode, packages, stdout, raised, given, recs, ret, msgs>>

\* training = read_package(workout_type, data)
Loop_read_package ==
  /\ pc = "for"
  /\ idx <= Len(packages)
  /\ \E r \in {read_package(packages[idx].workout_type, packages[idx].data)} :
       IF Raised(r)
       THEN pc' = "traceback" /\ raised' = r.exc /\ UNCHANGED training
       ELSE pc' = "main" /\ training' = r /\ UNCHANGED raised
  /\ UNCHANGED <<pow_mode, packages, idx, stdout, given, recs, ret, msgs>>

\* variant: the line is put before the lines printed so far
main_prepend ==
  /\ pc = "main"
  /\ \E info \in {show_training_info(training)} :
       IF Raised(info)
       THEN pc' = "traceback" /\ raised' = info.exc /\ UNCHANGED <<idx, stdout>>
       ELSE /\ stdout' = <<get_message(info)>> \o stdout
            /\ idx' = idx + 1
            /\ pc' = "for"
            /\ UNCHANGED raised
  /\ UNCHANGED <<pow_mode, packages, training, given, recs, ret, msgs>>

\* main(training): print(training.show_training_info().get_message())
main ==
  /\ pc = "main"
  /\ \E info \in {show_training_info(training)} :
       IF Raised(info)
       THEN pc' = "traceback" /\ raised' = info.exc /\ UNCHANGED <<idx, stdout>>
       ELSE /\ stdout' = Append(stdout, get_message(info))
            /\ idx' = idx + 1
            /\ pc' = "for"
            /\ UNCHANGED raised
  /\ UNCHANGED <<pow_mode, packages, training, given, recs, ret, msgs>>

Loop_exit ==
  /\ pc = "for"
  /\ idx > Len(packages)
  /\ pc' = "exit"
  /\ UNCHANGED <<pow_mode, packages, idx, training, stdout, raised,
                 given, recs, ret, msgs>>

Next == Loop_read_package \/ main \/ Loop_exit

Spec == Init /\ [][Next]_vars

(***************************************************************************)
(* Calls on objects: a caller builds one object, or two, and calls their   *)
(* methods in any order, any number of times.  given[i] says how object i  *)
(* is built: by read_package(workout_type, data) or as a base Training.    *)
(***************************************************************************)
Direct(data) == [direct |-> "Training", data |-> data]

NoReturn == [op |-> "none", val |-> NoTraining]

MaxDuration == 2

Durations == 0..MaxDuration

RunningRequests ==
  { Package("RUN", <<a, d, w>>) : a \in {1, 420, 15000}, d \in Durations,
                                   w \in {1, 75} }

UnknownCodeRequests ==
  { Package(c, data) :
      c \in {"XYZ", "run"},
      data \in { <<>>, <<15000, 1, 75>>, <<9000, 1, 75, 180>>,
                 <<720, 1, 80, 25, 40>>, <<1, 2, 3, 4, 5, 6>> } }

ArityRequests ==
  { Package("RUN", <<15000, 1>>), Package("WLK", <<9000, 1, 75>>),
    Package("SWM", <<720, 1, 80, 25, 40, 1>>) }

SwimmingRequests ==
  { Package("SWM", <<720, d, 80, 25, 40>>) : d \in Durations }

DirectRequests == { Direct(<<9000, d, 75>>) : d \in Durations }

Requests ==
  RunningRequests \cup UnknownCodeRequests \cup ArityRequests
  \cup SwimmingRequests \cup DirectRequests
  \cup { Package("WLK", <<9000, 1, 75, 180>>), Package("WLK", <<9000, 1, 75, 0>>) }

\* two objects whose inputs are equal, or differ in one argument only
HeightPairs ==
  { <<Package("WLK", base \o <<h[1]>>), Package("WLK", base \o <<h[2]>>)>> :
      base \in { <<9000, d, 75>> : d \in Durations \ {0} } \cup { <<1, 1000, 1>> },
      h \in { <<179, 180>>, <<1, 180>>, <<150, 200>> } }

SwimmingPairs ==
  { <<Package("SWM", <<720, 1, 80, 25, 40>>), Package("SWM", <<1, 1, 80, 25, 40>>)>>,
    <<Package("SWM", <<720, 2, 80, 25, 40>>), Package("SWM", <<720, 2, 80, 50, 40>>)>>,
    <<Package("SWM", <<720, 2, 75, 25, 40>>), Package("SWM", <<720, 2, 75, 25, 3>>)>> }

TwinPairs ==
  { <<g, g>> : g \in { Package("SWM", <<720, 1, 80, 25, 40>>),
                       Package("RUN", <<15000, 1, 75>>),
                       Package("WLK", <<9000, 1, 75, 180>>),
                       Direct(<<9000, 1, 75>>) } }

RequestLists ==
  { <<g>> : g \in Requests } \cup HeightPairs \cup SwimmingPairs \cup TwinPairs

CallInit ==
  /\ pow_mode \in PowModes
  /\ given \in RequestLists
  /\ recs = [i \in DOMAIN given |-> NoTraining]
  /\ ret = [i \in DOMAIN given |-> NoReturn]
  /\ msgs = [i \in DOMAIN given |-> {}]
  /\ packages = <<>> /\ idx = 1 /\ pc = "calls"
  /\ training = NoTraining /\ stdout = <<>> /\ raised = "None"

\* what a call that builds object i leaves: the object, unless it raised
Built(i, r) ==
  /\ recs' = [recs EXCEPT ![i] = IF Raised(r) THEN NoTraining ELSE r]
  /\ ret' = [ret EXCEPT ![i] = [op |-> "new", val |-> r]]
  /\ UNCHANGED <<pow_mode, packages, idx, pc, training, stdout, raised,
                 given, msgs>>

\* what a method call on object i leaves: no method assigns to self
Returned(i, op, r) ==
  /\ ret' = [ret EXCEPT ![i] = [op |-> op, val |-> r]]
  /\ UNCHANGED <<pow_mode, packages, idx, pc, training, stdout, raised,
                 given, recs>>

Call_read_package(i) ==
  /\ pc = "calls"
  /\ ret[i] = NoReturn
  /\ "workout_type" \in DOMAIN given[i]
  /\ Built(i, read_package(given[i].workout_type, given[i].data))

Construct_Training(i) ==
  /\ pc = "calls"
  /\ ret[i] = NoReturn
  /\ "direct" \in DOMAIN given[i]
  /\ Built(i, New(given[i].direct, given[i].data))

\* variant: get_distance resets the step counter it has read
Call_get_distance_consuming(i) ==
  /\ pc = "calls"
  /\ recs[i] # NoTraining
  /\ ret' = [ret EXCEPT ![i] = [op |-> "get_distance",
                                val |-> get_distance(recs[i])]]
  /\ recs' = [recs EXCEPT ![i].action = 0]
  /\ UNCHANGED <<pow_mode, packages, idx, pc, training, stdout, raised,
                 given, msgs>>

Call_get_distance(i) ==
  /\ pc = "calls"
  /\ recs[i] # NoTraining
  /\ Returned(i, "get_distance", get_distance(recs[i]))
  /\ UNCHANGED msgs

Call_get_mean_speed(i) ==
  /\ pc = "calls"
  /\ recs[i] # NoTraining
  /\ Returned(i, "get_mean_speed", get_mean_speed(recs[i]))
  /\ UNCHANGED msgs

Call_get_spent_calories(i) ==
  /\ pc = "calls"
  /\ recs[i] # NoTraining
  /\ Returned(i, "get_spent_calories", get_spent_calories(recs[i]))
  /\ UNCHANGED msgs

\* show_training_info(), and get_message() on the summary it returned
Call_show_training_info(i) ==
  /\ pc = "calls"
  /\ recs[i] # NoTraining
  /\ \E info \in {show_training_info(recs[i])} :
       /\ Returned(i, "show_training_info", info)
       /\ msgs' = [msgs EXCEPT ![i] =
                     IF Raised(info) THEN @ ELSE @ \cup {get_message(info)}]

CallNext ==
  \/ \E i \in DOMAIN given : Call_read_package(i)
  \/ \E i \in DOMAIN given : Construct_Training(i)
  \/ \E i \in DOMAIN given : Call_get_distance(i)
  \/ \E i \in DOMAIN given : Call_get_mean_speed(i)
  \/ \E i \in DOMAIN given : Call_get_spent_calories(i)
  \/ \E i \in DOMAIN given : Call_show_training_info(i)

CallSpec == CallInit /\ [][CallNext]_vars

(***************************************************************************)
(* Properties of the driver (under Spec).                                  *)
(***************************************************************************)
\* a pair the driver processes without an exception: a known code, as many
\* arguments as the class takes, no zero duration and no zero height
ValidPair(p) ==
  /\ p.workout_type \in {"SWM", "RUN", "WLK"}
  /\ Len(p.data) = (CASE p.workout_type = "SWM" -> 5
                      [] p.workout_type = "RUN" -> 3
                      [] p.workout_type = "WLK" -> 4)
  /\ p.data[2] # 0
  /\ p.workout_type = "WLK" => p.data[4] # 0

TypeLabel(workout_type) ==
  CASE workout_type = "SWM" -> "Swimming"
    [] workout_type = "RUN" -> "Running"
    [] workout_type = "WLK" -> "SportsWalking"

\* the line of a summary with the given label
LineOf(label, info) ==
  "Tip trenirovki: " \o label
  \o "; Dlitel'nost': " \o Format3f[FOfInt[info.duration]] \o " ch."
  \o "; Distantsiya: " \o Format3f[info.distance] \o " km"
  \o "; Sr. skorost': " \o Format3f[info.speed] \o " km/ch"
  \o "; Potracheno kkal: " \o Format3f[info.calories] \o "."

\* the formatted summary of a valid pair
SummaryLine(p) ==
  LineOf(TypeLabel(p.workout_type),
         show_training_info(read_package(p.workout_type, p.data)))

\* C2: for a sequence of valid pairs the driver never fails, the lines emitted
\* so far are the formatted summaries of the pairs processed so far, in input
\* order (line i is pair i's, labelled Swimming, Running or SportsWalking),
\* and when the loop is over there is exactly one line per pair.
C2_OneLinePerPairInOrder ==
  (\A i \in DOMAIN packages : ValidPair(packages[i])) =>
    /\ pc # "traceback"
    /\ Len(stdout) = idx - 1
    /\ \A i \in DOMAIN stdout : stdout[i] = SummaryLine(packages[i])
    /\ pc = "exit" => Len(stdout) = Len(packages)

\* C2 witness: a finished run over three valid pairs, one of each code
C2_Witness ==
  /\ pc = "exit"
  /\ Len(packages) = 3
  /\ \A i \in DOMAIN packages : ValidPair(packages[i])
  /\ packages[1].workout_type = "SWM"
  /\ packages[2].workout_type = "RUN"
  /\ packages[3].workout_type = "WLK"
  /\ Len(stdout) = 3

RunPackage == Package("RUN", <<15000, 1, 75>>)

\* C5 as stated: the line of ("RUN", [15000, 1, 75]) shows distance 9.750,
\* mean speed 9.750 and calories 750.106.
C5_AsClaimed ==
  \A i \in DOMAIN stdout :
    packages[i] = RunPackage =>
      stdout[i] = "Tip trenirovki: Running; Dlitel'nost': 1.000 ch."
                  \o "; Distantsiya: 9.750 km; Sr. skorost': 9.750 km/ch"
                  \o "; Potracheno kkal: 750.106."

\* C5 amended: the line of ("RUN", [15000, 1, 75]) shows distance 9.750, mean
\* speed 9.750 and calories 797.805.
C5_RunExample ==
  \A i \in DOMAIN stdout :
    packages[i] = RunPackage =>
      stdout[i] = "Tip trenirovki: Running; Dlitel'nost': 1.000 ch."
                  \o "; Distantsiya: 9.750 km; Sr. skorost': 9.750 km/ch"
                  \o "; Potracheno kkal: 797.805."

\* C5 witness: the line of the pair has been printed
C5_Witness ==
  \E i \in DOMAIN stdout : packages[i] = RunPackage

WalkPackage == Package("WLK", <<9000, 1, 75, 180>>)

\* (0.035 * weight + (v^2 / h) * 0.029 * weight) * duration * 60 with
\* v = mean_speed * 0.278 and h = height / 100, for the pair's arguments and
\* mean_speed = 9000 * 0.65 / 1000 / 1, the square rounded either way
WalkFormula(mode) ==
  FMul[FMul[FAdd[FMul[FLit(35, 1000), FOfInt[75]],
                 FMul[FMul[FDiv[FPow2[FMul[FDiv[FDiv[FMul[FOfInt[9000],
                                                          FLit(65, 100)],
                                                     FOfInt[1000]],
                                                FOfInt[1]],
                                           FLit(278, 1000)],
                                      mode],
                                FDiv[FOfInt[180], FOfInt[100]]],
                           FLit(29, 1000)],
                      FOfInt[75]]],
            FOfInt[1]],
       FOfInt[60]]

WalkFormulaTexts == { Format3f[WalkFormula(mode)] : mode \in PowModes }

\* C6 as stated: the line of ("WLK", [9000, 1, 75, 180]) shows distance 5.850,
\* mean speed 5.850 and calories 157.037.
C6_AsClaimed ==
  \A i \in DOMAIN stdout :
    packages[i] = WalkPackage =>
      stdout[i] = "Tip trenirovki: SportsWalking; Dlitel'nost': 1.000 ch."
                  \o "; Distantsiya: 5.850 km; Sr. skorost': 5.850 km/ch"
                  \o "; Potracheno kkal: 157.037."

\* C6 amended: the line of ("WLK", [9000, 1, 75, 180]) shows distance 5.850,
\* mean speed 5.850 and calories 349.252, which is the value of the stated
\* formula to three decimals.
C6_WalkExample ==
  /\ WalkFormulaTexts = {"349.252"}
  /\ \A i \in DOMAIN stdout :
       packages[i] = WalkPackage =>
         stdout[i] = "Tip trenirovki: SportsWalking; Dlitel'nost': 1.000 ch."
                     \o "; Distantsiya: 5.850 km; Sr. skorost': 5.850 km/ch"
                     \o "; Potracheno kkal: 349.252."

\* C6 witness: the line of the pair has been printed
C6_Witness ==
  \E i \in DOMAIN stdout : packages[i] = WalkPackage

\* the first pair whose processing fails
FirstFailing ==
  CHOOSE k \in DOMAIN packages :
    /\ ~ValidPair(packages[k])
    /\ \A j \in 1..(k - 1) : ValidPair(packages[j])

\* C10: if pair k is the first whose processing fails (unknown code, argument
\* count, zero duration or zero height), the driver never gets past pair k,
\* never prints more than k - 1 lines and never finishes the loop; once the
\* exception has ended it, it stands at pair k with exactly the lines of pairs
\* 1..k-1 printed, and it takes no further step.
C10_NoIsolation ==
  (\E k \in DOMAIN packages : ~ValidPair(packages[k])) =>
    /\ idx <= FirstFailing
    /\ Len(stdout) < FirstFailing
    /\ pc # "exit"
    /\ pc = "traceback" =>
         /\ idx = FirstFailing
         /\ Len(stdout) = FirstFailing - 1
         /\ \A i \in DOMAIN stdout :
              stdout[i] = get_message(show_training_info(
                            read_package(packages[i].workout_type,
                                         packages[i].data)))
         /\ ~ENABLED Next

\* C10 witness: the second of three pairs failed after the first was printed
C10_Witness ==
  /\ pc = "traceback"
  /\ Len(packages) = 3
  /\ idx = 2
  /\ Len(stdout) = 1
  /\ ValidPair(packages[3])

(***************************************************************************)
(* Properties of the calls on objects (under CallSpec).                    *)
(***************************************************************************)
ByReadPackage(i) == "workout_type" \in DOMAIN given[i]

\* C1: read_package with a code other than "SWM", "RUN", "WLK" ends in
\* ValueError whatever the argument list (also for lists of a length no class
\* takes, where a constructor would have ended in TypeError), and no record
\* comes out of it.
C1_UnknownCodeRejected ==
  \A i \in DOMAIN given :
    (/\ ByReadPackage(i)
     /\ given[i].workout_type \notin {"SWM", "RUN", "WLK"}
     /\ ret[i] # NoReturn)
    => /\ ret[i] = [op |-> "new", val |-> Raise("ValueError")]
       /\ recs[i] = NoTraining

\* C1 witness: read_package has returned for an unknown code and six arguments
C1_Witness ==
  \E i \in DOMAIN given :
    /\ ByReadPackage(i)
    /\ given[i].workout_type = "XYZ"
    /\ Len(given[i].data) = 6
    /\ ret[i] # NoReturn

\* C3: the summary of a Running record with duration > 0 has
\* distance = action * 0.65 / 1000, speed = distance / duration and
\* calories = (18 * speed + 1.79) * weight / 1000 * duration * 60, speed being
\* the summary's own speed (each operation a float operation, left to right).
C3_RunningSummary ==
  \A i \in DOMAIN given :
    (/\ recs[i].cls = "Running"
     /\ recs[i].duration > 0
     /\ ret[i].op = "show_training_info")
    => /\ ~Raised(ret[i].val)
       /\ ret[i].val.distance =
            FDiv[FMul[FOfInt[given[i].data[1]], FLit(65, 100)], FOfInt[1000]]
       /\ ret[i].val.speed =
            FDiv[ret[i].val.distance, FOfInt[given[i].data[2]]]
       /\ ret[i].val.calories =
            FMul[FMul[FDiv[FMul[FAdd[FMul[FOfInt[18], ret[i].val.speed],
                                     FLit(179, 100)],
                                FOfInt[given[i].data[3]]],
                           FOfInt[1000]],
                      FOfInt[given[i].data[2]]],
                 FOfInt[60]]

\* C3 witness: the summary of a two-hour run has been built
C3_Witness ==
  \E i \in DOMAIN given :
    /\ recs[i].cls = "Running"
    /\ recs[i].duration = 2
    /\ recs[i].action = 15000
    /\ ret[i].op = "show_training_info"
    /\ ~Raised(ret[i].val)

\* length_pool * count_pool / 1000 / duration for the arguments of a Swimming
PoolSpeed(data) ==
  FDiv[FDiv[FOfInt[data[4] * data[5]], FOfInt[1000]], FOfInt[data[2]]]

\* action * 1.38 / 1000
SwimDistance(data) ==
  FDiv[FMul[FOfInt[data[1]], FLit(138, 100)], FOfInt[1000]]

\* (speed + 1.1) * 2 * weight * duration
SwimCalories(data) ==
  FMul[FMul[FMul[FAdd[PoolSpeed(data), FLit(11, 10)], FOfInt[2]],
            FOfInt[data[3]]],
       FOfInt[data[2]]]

IsSwimming(i) == recs[i].cls = "Swimming" /\ recs[i].duration > 0

\* the same arguments except the one, or two, at the given places
SameExcept(i, j, places) ==
  /\ Len(given[i].data) = Len(given[j].data)
  /\ \A k \in DOMAIN given[i].data \ places :
       given[i].data[k] = given[j].data[k]

\* C4: for a Swimming record with duration > 0 the mean speed is
\* length_pool * count_pool / 1000 / duration, the distance is
\* action * 1.38 / 1000 and the calories are (speed + 1.1) * 2 * weight *
\* duration with that pool speed, from the methods and in the summary; two
\* records that differ only in action have the same speed, two that differ
\* only in the pool arguments the same distance.
C4_SwimmingFormulas ==
  /\ \A i \in DOMAIN given :
       IsSwimming(i) =>
         /\ ret[i].op = "get_mean_speed" =>
              ret[i].val = PoolSpeed(given[i].data)
         /\ ret[i].op = "get_distance" =>
              ret[i].val = SwimDistance(given[i].data)
         /\ ret[i].op = "get_spent_calories" =>
              ret[i].val = SwimCalories(given[i].data)
         /\ ret[i].op = "show_training_info" =>
              /\ ~Raised(ret[i].val)
              /\ ret[i].val.speed = PoolSpeed(given[i].data)
              /\ ret[i].val.distance = SwimDistance(given[i].data)
              /\ ret[i].val.calories = SwimCalories(given[i].data)
  /\ \A i, j \in DOMAIN given :
       (IsSwimming(i) /\ IsSwimming(j)) =>
         /\ (/\ SameExcept(i, j, {1})
             /\ ret[i].op = "get_mean_speed"
             /\ ret[j].op = "get_mean_speed")
            => ret[i].val = ret[j].val
         /\ (/\ SameExcept(i, j, {4, 5})
             /\ ret[i].op = "get_distance"
             /\ ret[j].op = "get_distance")
            => ret[i].val = ret[j].val

\* C4 witness: the speeds of two Swimming records with different action, and
\* otherwise equal arguments, have been computed
C4_Witness ==
  \E i, j \in DOMAIN given :
    /\ IsSwimming(i) /\ IsSwimming(j)
    /\ SameExcept(i, j, {1})
    /\ given[i].data[1] # given[j].data[1]
    /\ ret[i].op = "get_mean_speed"
    /\ ret[j].op = "get_mean_speed"

\* objects i and j are SportsWalking records with positive arguments that
\* differ only in height, i the shorter, and get_spent_calories was the last
\* call on both
ShorterAndTaller(i, j) ==
  /\ recs[i].cls = "SportsWalking" /\ recs[j].cls = "SportsWalking"
  /\ \A k \in 1..3 : given[i].data[k] > 0
  /\ SameExcept(i, j, {4})
  /\ 0 < recs[i].height /\ recs[i].height < recs[j].height
  /\ ret[i].op = "get_spent_calories"
  /\ ret[j].op = "get_spent_calories"

\* C7 as stated: the shorter walker's calories are strictly greater.
C7_AsClaimed ==
  \A i, j \in DOMAIN given :
    ShorterAndTaller(i, j) => FLess[ret[j].val, ret[i].val]

\* C7 amended: the shorter walker's calories are never smaller.
C7_NeverSmaller ==
  \A i, j \in DOMAIN given :
    ShorterAndTaller(i, j) =>
      /\ ~Raised(ret[i].val) /\ ~Raised(ret[j].val)
      /\ ~FLess[ret[i].val, ret[j].val]

\* C7 witness: calories computed for heights 179 and 180, the shorter
\* walker's strictly greater
C7_Witness ==
  \E i, j \in DOMAIN given :
    /\ ShorterAndTaller(i, j)
    /\ recs[i].height = 179 /\ recs[j].height = 180
    /\ FLess[ret[j].val, ret[i].val]

\* the fields of object i are the arguments it was built from
FieldsAsBuilt(i) ==
  /\ recs[i].action = given[i].data[1]
  /\ recs[i].duration = given[i].data[2]
  /\ recs[i].weight = given[i].data[3]
  /\ recs[i].cls = "SportsWalking" => recs[i].height = given[i].data[4]
  /\ recs[i].cls = "Swimming" =>
       /\ recs[i].length_pool = given[i].data[4]
       /\ recs[i].count_pool = given[i].data[5]
  /\ DOMAIN recs[i] =
       {"cls", "action", "duration", "weight"}
       \cup (IF recs[i].cls = "SportsWalking" THEN {"height"} ELSE {})
       \cup (IF recs[i].cls = "Swimming"
             THEN {"length_pool", "count_pool"} ELSE {})

\* C8: whatever calls were made, the fields of a record are the arguments it
\* was built from; all the strings show_training_info().get_message() has
\* returned on one record are the same string, and so are those returned on
\* two records built from the same (code, args).
C8_Deterministic ==
  /\ \A i \in DOMAIN given :
       /\ recs[i] # NoTraining => FieldsAsBuilt(i)
       /\ Cardinality(msgs[i]) <= 1
  /\ \A i, j \in DOMAIN given :
       given[i] = given[j] => Cardinality(msgs[i] \cup msgs[j]) <= 1

\* C8 witness: two records built by read_package from the same pair have both
\* returned their string, and other methods were called after that
C8_Witness ==
  /\ DOMAIN given = {1, 2}
  /\ ByReadPackage(1)
  /\ given[1] = given[2]
  /\ msgs[1] # {} /\ msgs[2] # {}
  /\ ret[1].op = "get_distance"
  /\ ret[2].op = "get_spent_calories"

IsBase(i) == recs[i].cls = "Training"

\* C9 as stated: show_training_info and get_spent_calories on a base Training
\* end in NotImplementedError.
C9_AsClaimed ==
  \A i \in DOMAIN given :
    (IsBase(i) /\ ret[i].op \in {"show_training_info", "get_spent_calories"})
    => ret[i].val = Raise("NotImplementedError")

\* C9 amended: on a base Training get_spent_calories ends in
\* NotImplementedError; show_training_info ends in NotImplementedError when
\* the duration is not zero and in ZeroDivisionError when it is zero (the mean
\* speed is computed first); neither returns a calorie value or a summary,
\* and no summary string is ever produced.
C9_BaseTrainingFails ==
  \A i \in DOMAIN given :
    IsBase(i) =>
      /\ msgs[i] = {}
      /\ ret[i].op = "get_spent_calories" =>
           ret[i].val = Raise("NotImplementedError")
      /\ ret[i].op = "show_training_info" =>
           ret[i].val = Raise(IF recs[i].duration = 0
                              THEN "ZeroDivisionError"
                              ELSE "NotImplementedError")

\* C9 witness: show_training_info was called on a base Training of non-zero
\* duration
C9_Witness ==
  \E i \in DOMAIN given :
    /\ IsBase(i)
    /\ recs[i].duration # 0
    /\ ret[i].op = "show_training_info"

====
